---- MODULE Spec2Model ----
(***************************************************************************)
(* A model of sutord.py: the word store (Dictionary), the letter scoring   *)
(* (Answer.check), the per-player state (Player) and the session (Game).   *)
(*                                                                         *)
(* A word is a sequence of one-character strings.  Python's None is the    *)
(* string "None" (no character of the model is spelled that way).  A Game  *)
(* is a record [hidden_word, players, next_rank]; players is the dict of   *)
(* the source as the sequence of its items in insertion order, each item   *)
(* a record [user, rank, left, letters, answers].                          *)
(***************************************************************************)
EXTENDS Integers, Sequences, FiniteSets, Bags, TLC

(***************************************************************************)
(* Bounds of the model.                                                    *)
(***************************************************************************)
\* number of distinct users that can take part
NumUsers == 2
\* longest raw text a user sends as a guess
MaxRawLen == 3
\* number of guesses accepted in one game
MaxAnswers == 3

Users == 1..NumUsers

None == "None"

(***************************************************************************)
(* Characters.  The raw characters users and files can hold, and what      *)
(* unidecode, str.isalpha and str.lower do to each.  "A_grave" stands for  *)
(* the accented capital A (U+00C0), "nl" for the line feed ending a line   *)
(* of a file.  RawChars are the characters of a guess; the files also hold *)
(* "B" and "nl".                                                           *)
(***************************************************************************)
RawChars == {"a", "b", "A_grave", "-"}

unidecode_char(c) == IF c = "A_grave" THEN "A" ELSE c

isalpha(c) == c \in {"a", "b", "A", "B"}

lower_char(c) ==
  CASE c = "A" -> "a"
    [] c = "B" -> "b"
    [] OTHER   -> c

RECURSIVE SeqFilterMap(_, _)
\* ''.join(filter(str.isalpha, unidecode(word))).lower(), character by character
SeqFilterMap(word, i) ==
  IF i > Len(word) THEN <<>>
  ELSE LET c == unidecode_char(word[i])
       IN  (IF isalpha(c) THEN <<lower_char(c)>> ELSE <<>>) \o SeqFilterMap(word, i + 1)

normalize(word) == SeqFilterMap(word, 1)

Range(s) == {s[i] : i \in DOMAIN s}

(***************************************************************************)
(* Dictionary: the two files, one word per line, and what __init__ loads.  *)
(* Every line holds at least one letter.  The choices hold a word of one   *)
(* letter, one of two and one of three; "ab" and "abb" are in the choices  *)
(* only.                                                                   *)
(***************************************************************************)
DictionaryFile ==
  << <<"b", "b", "nl">>,
     <<"B", "-", "a", "nl">>,
     <<"a", "a", "b", "nl">>,
     <<"b", "b", "a", "nl">>,
     <<"b", "nl">> >>

ChoicesFile ==
  << <<"a", "b", "nl">>,
     <<"A_grave", "nl">>,
     <<"a", "b", "b", "nl">> >>

\* Dictionary.load(filename, type): type(map(Dictionary.normalize, file))
load_set(file) == {normalize(file[i]) : i \in DOMAIN file}
load_list(file) == [i \in DOMAIN file |-> normalize(file[i])]

choices == load_list(ChoicesFile)

\* __init__ without "self.dictionary.update(self.choices)"
dictionary_NoUpdate == load_set(DictionaryFile)

\* self.dictionary after __init__: the loaded set updated with the choices
dictionary == load_set(DictionaryFile) \cup Range(choices)

contains(word) == word \in dictionary

(***************************************************************************)
(* Answer: the scoring of one guess against the hidden word.               *)
(***************************************************************************)
FOUND == "FOUND"
EXIST == "EXIST"
WRONG == "WRONG"

Letters == {"a", "b", "d", "e", "r"}

Min(a, b) == IF a < b THEN a ELSE b

\* a set of letters in place of the Counter: each letter of the word once
Counter_Presence(word) ==
  [c \in Letters |-> IF \E i \in DOMAIN word : word[i] = c THEN 1 ELSE 0]

\* Counter(hidden_word); a key that is missing reads as 0
Counter(word) == [c \in Letters |-> Cardinality({i \in DOMAIN word : word[i] = c})]

RECURSIVE check_pass1(_, _, _, _)
\* first loop of check: every exact match takes one occurrence of its letter
check_pass1(word, hidden_word, counts, i) ==
  IF i > Min(Len(word), Len(hidden_word)) THEN counts
  ELSE check_pass1(word, hidden_word,
                   IF word[i] = hidden_word[i]
                   THEN [counts EXCEPT ![word[i]] = @ - 1]
                   ELSE counts,
                   i + 1)

RECURSIVE check_pass2_NoDecrement(_, _, _, _)
\* the second loop without "counts[x] -= 1"
check_pass2_NoDecrement(word, hidden_word, counts, i) ==
  IF i > Min(Len(word), Len(hidden_word)) THEN <<>>
  ELSE LET x == word[i]
           y == hidden_word[i]
       IN  IF x = y
           THEN <<FOUND>> \o check_pass2_NoDecrement(word, hidden_word, counts, i + 1)
           ELSE IF x \in Range(hidden_word) /\ counts[x] > 0
           THEN <<EXIST>> \o check_pass2_NoDecrement(word, hidden_word, counts, i + 1)
           ELSE <<WRONG>> \o check_pass2_NoDecrement(word, hidden_word, counts, i + 1)

RECURSIVE check_pass2(_, _, _, _)
\* second loop of check: the types, left to right
check_pass2(word, hidden_word, counts, i) ==
  IF i > Min(Len(word), Len(hidden_word)) THEN <<>>
  ELSE LET x == word[i]
           y == hidden_word[i]
       IN  IF x = y
           THEN <<FOUND>> \o check_pass2(word, hidden_word, counts, i + 1)
           ELSE IF x \in Range(hidden_word) /\ counts[x] > 0
           THEN <<EXIST>> \o check_pass2(word, hidden_word,
                                         [counts EXCEPT ![x] = @ - 1], i + 1)
           ELSE <<WRONG>> \o check_pass2(word, hidden_word, counts, i + 1)

\* check without its first loop: exact matches reserve nothing
check_NoReserve(word, hidden_word) ==
  check_pass2(word, hidden_word, Counter(hidden_word), 1)

check(word, hidden_word) ==
  check_pass2(word, hidden_word,
              check_pass1(word, hidden_word, Counter(hidden_word), 1), 1)

\* Answer.__init__
Answer(word, hidden_word) ==
  [letters |-> word, types |-> check(word, hidden_word)]

get_letters_found(answer) ==
  [i \in 1..Min(Len(answer.letters), Len(answer.types)) |->
     IF answer.types[i] = FOUND THEN answer.letters[i] ELSE None]

(***************************************************************************)
(* Player.                                                                 *)
(***************************************************************************)
\* Player.__init__
Player(user, hidden_word) ==
  [user    |-> user,
   rank    |-> -1,
   left    |-> FALSE,
   letters |-> [i \in 1..Len(hidden_word) |->
                  IF i = 1 THEN hidden_word[i] ELSE None],
   answers |-> <<>>]

found(player) == None \notin Range(player.letters)

Player_over(player) == found(player) \/ player.left

Player_answered(player) == Len(player.answers) > 0

\* the letters of the new answer taken in place of "x or y"
Or_TakeNew(x, y) == y

\* x or y, for x and y a letter or None
Or(x, y) == IF x # None THEN x ELSE y

Player_add_answer(player, word, hidden_word) ==
  LET answer == Answer(word, hidden_word)
      lf     == get_letters_found(answer)
  IN  [player EXCEPT
         !.letters = [i \in 1..Min(Len(player.letters), Len(lf)) |->
                        Or(player.letters[i], lf[i])],
         !.answers = Append(@, answer)]

(***************************************************************************)
(* Game.  The dict players is the sequence of its items in insertion       *)
(* order; a user is a key of it at most once.                              *)
(***************************************************************************)
\* the user-facing reasons add_answer returns (written here without accents)
TooShort == "Le mot propose est trop court."
TooLong == "Le mot propose est trop long."
NotInDictionary == "Le mot propose n'est pas dans le dictionnaire."

\* Game.__init__, with the hidden word dictionary.choice() drew
Game(users, hidden_word) ==
  [hidden_word |-> hidden_word,
   players     |-> [i \in DOMAIN users |-> Player(users[i], hidden_word)],
   next_rank   |-> 1]

\* user in self.players
InPlayers(game, user) == \E i \in DOMAIN game.players : game.players[i].user = user

\* the position of the key user in the dict
IndexOf(game, user) == CHOOSE i \in DOMAIN game.players : game.players[i].user = user

get_player(game, user) == game.players[IndexOf(game, user)]

Game_over(game) == \A i \in DOMAIN game.players : Player_over(game.players[i])

Game_answered(game) == \E i \in DOMAIN game.players : Player_answered(game.players[i])

\* the key without "if player.rank > 0 else self.next_rank"
SortKey_RankOnly(game, player) == player.rank

\* the key of get_sorted_players
SortKey(game, player) == IF player.rank > 0 THEN player.rank ELSE game.next_rank

RECURSIVE InsertSorted(_, _, _)
\* p put into the sorted sequence s after every item whose key is not greater
InsertSorted(game, s, p) ==
  IF s = <<>> THEN <<p>>
  ELSE IF SortKey(game, Head(s)) <= SortKey(game, p)
       THEN <<Head(s)>> \o InsertSorted(game, Tail(s), p)
       ELSE <<p>> \o s

RECURSIVE SortedPrefix(_, _)
\* sorted() is stable: the first n items of the dict, sorted by the key
SortedPrefix(game, n) ==
  IF n = 0 THEN <<>>
  ELSE InsertSorted(game, SortedPrefix(game, n - 1), game.players[n])

get_sorted_players(game) == SortedPrefix(game, Len(game.players))

\* add_player without "if user in self.players: return False": the item of
\* the key is assigned again
add_player_NoPresenceCheck(game, user) ==
  IF InPlayers(game, user)
  THEN [game |-> [game EXCEPT !.players[IndexOf(game, user)] =
                    Player(user, game.hidden_word)],
        ret  |-> TRUE]
  ELSE [game |-> [game EXCEPT !.players = Append(@, Player(user, game.hidden_word))],
        ret  |-> TRUE]

\* Each operation gives the game after the call and the value returned.
add_player(game, user) ==
  IF InPlayers(game, user)
  THEN [game |-> game, ret |-> FALSE]
  ELSE [game |-> [game EXCEPT !.players = Append(@, Player(user, game.hidden_word))],
        ret  |-> TRUE]

\* remove_player without "or self.players[user].over()"
remove_player_NoOverCheck(game, user) ==
  IF ~InPlayers(game, user)
  THEN [game |-> game, ret |-> FALSE]
  ELSE [game |-> [game EXCEPT !.players[IndexOf(game, user)].left = TRUE],
        ret  |-> TRUE]

remove_player(game, user) ==
  IF ~InPlayers(game, user) \/ Player_over(get_player(game, user))
  THEN [game |-> game, ret |-> FALSE]
  ELSE [game |-> [game EXCEPT !.players[IndexOf(game, user)].left = TRUE],
        ret  |-> TRUE]

\* AssignRank with "self.next_rank += 1" lost
AssignRank_NoIncrement(game, i) ==
  IF found(game.players[i])
  THEN [game EXCEPT !.players[i].rank = game.next_rank]
  ELSE game

\* AssignRank without "if player.found()": every accepted guess takes a rank
AssignRank_Unconditional(game, i) ==
  [game EXCEPT !.players[i].rank = game.next_rank,
               !.next_rank = @ + 1]

\* lines 229-231: the rank goes to a player who has found the word
AssignRank(game, i) ==
  IF found(game.players[i])
  THEN [game EXCEPT !.players[i].rank = game.next_rank,
                    !.next_rank = @ + 1]
  ELSE game

\* ValidateAndApply with the answer stored before the word is validated
ValidateAndApply_StoreFirst(game, i, raw) ==
  LET word   == normalize(raw)
      stored == [game EXCEPT !.players[i] =
                   Player_add_answer(@, word, game.hidden_word)]
  IN  IF Len(word) < Len(game.hidden_word)
      THEN [game |-> stored, ret |-> <<FALSE, TooShort>>]
      ELSE IF Len(word) > Len(game.hidden_word)
      THEN [game |-> stored, ret |-> <<FALSE, TooLong>>]
      ELSE IF ~contains(word)
      THEN [game |-> stored, ret |-> <<FALSE, NotInDictionary>>]
      ELSE [game |-> AssignRank(stored, i), ret |-> <<TRUE, None>>]

\* ValidateAndApply with the dictionary looked up before the length is checked
ValidateAndApply_DictionaryFirst(game, i, raw) ==
  LET word == normalize(raw)
  IN  IF ~contains(word)
      THEN [game |-> game, ret |-> <<FALSE, NotInDictionary>>]
      ELSE IF Len(word) < Len(game.hidden_word)
      THEN [game |-> game, ret |-> <<FALSE, TooShort>>]
      ELSE IF Len(word) > Len(game.hidden_word)
      THEN [game |-> game, ret |-> <<FALSE, TooLong>>]
      ELSE [game |-> AssignRank(
                       [game EXCEPT !.players[i] =
                          Player_add_answer(@, word, game.hidden_word)], i),
            ret  |-> <<TRUE, None>>]

\* lines 218-233, for a player who is in the game and not over
ValidateAndApply(game, i, raw) ==
  LET word == normalize(raw)
  IN  IF Len(word) < Len(game.hidden_word)
      THEN [game |-> game, ret |-> <<FALSE, TooShort>>]
      ELSE IF Len(word) > Len(game.hidden_word)
      THEN [game |-> game, ret |-> <<FALSE, TooLong>>]
      ELSE IF ~contains(word)
      THEN [game |-> game, ret |-> <<FALSE, NotInDictionary>>]
      ELSE [game |-> AssignRank(
                       [game EXCEPT !.players[i] =
                          Player_add_answer(@, word, game.hidden_word)], i),
            ret  |-> <<TRUE, None>>]

\* add_answer without "if player.over(): return False, None"
add_answer_NoOverCheck(game, user, raw) ==
  IF ~InPlayers(game, user)
  THEN [game |-> game, ret |-> <<FALSE, None>>]
  ELSE ValidateAndApply(game, IndexOf(game, user), raw)

add_answer(game, user, raw) ==
  IF ~InPlayers(game, user)
  THEN [game |-> game, ret |-> <<FALSE, None>>]
  ELSE IF Player_over(get_player(game, user))
  THEN [game |-> game, ret |-> <<FALSE, None>>]
  ELSE ValidateAndApply(game, IndexOf(game, user), raw)

(***************************************************************************)
(* The session as a state machine: one Game, and the calls made on it.     *)
(* last records the latest call and what it returned.                      *)
(***************************************************************************)
VARIABLES game, last

vars == <<game, last>>

\* scored: the latest scoring of a guess (Answer.check on its own)
\* stats: the statistics and their files
\* client: the Client, its tasks and the Game objects it made
VARIABLES scored, stats, client

\* the variables the session does not use, and the value they keep there
others == <<scored, stats, client>>

\* the value of a variable that is not in use
Idle == [idle |-> TRUE]

OthersIdle == scored = Idle /\ stats = Idle /\ client = Idle

\* what a user can send as a guess
RawWords == UNION {[1..n -> RawChars] : n \in 0..MaxRawLen}

\* the lists of users a game can start with (the users who reacted, each once)
UserLists ==
  {s \in UNION {[1..n -> Users] : n \in 0..NumUsers} :
     \A i, j \in DOMAIN s : i # j => s[i] # s[j]}

Init ==
  /\ \E users \in UserLists, k \in DOMAIN choices : game = Game(users, choices[k])
  /\ last = [op |-> "init", user |-> 0, ret |-> None]
  /\ OthersIdle

RECURSIVE NumAnswers(_, _)
\* the answers held by the first n players
NumAnswers(g, n) ==
  IF n = 0 THEN 0 ELSE Len(g.players[n].answers) + NumAnswers(g, n - 1)

AddPlayer(user) ==
  LET r == add_player(game, user)
  IN  /\ game' = r.game
      /\ last' = [op |-> "add_player", user |-> user, ret |-> r.ret]
      /\ UNCHANGED others

RemovePlayer(user) ==
  LET r == remove_player(game, user)
  IN  /\ game' = r.game
      /\ last' = [op |-> "remove_player", user |-> user, ret |-> r.ret]
      /\ UNCHANGED others

AddAnswer(user, raw) ==
  LET r == add_answer(game, user, raw)
  IN  /\ NumAnswers(r.game, Len(r.game.players)) <= MaxAnswers
      /\ game' = r.game
      /\ last' = [op |-> "add_answer", user |-> user, ret |-> r.ret]
      /\ UNCHANGED others

\* the host reads the ranking (sutom_stop does, to print it)
GetSortedPlayers ==
  /\ game' = game
  /\ last' = [op |-> "get_sorted_players", user |-> 0, ret |-> get_sorted_players(game)]
  /\ UNCHANGED others

Next ==
  \/ \E user \in Users : AddPlayer(user)
  \/ \E user \in Users : RemovePlayer(user)
  \/ \E user \in Users, raw \in RawWords : AddAnswer(user, raw)
  \/ GetSortedPlayers

Spec == Init /\ [][Next]_<<vars, others>>

(***************************************************************************)
(* Properties of the session.                                              *)
(***************************************************************************)
Players == game.players

Ranked(g) == {i \in DOMAIN g.players : g.players[i].rank > 0}

\* the call recorded in last' was an add_answer that was rejected
RejectedAnswer == last'.op = "add_answer" /\ last'.ret[1] = FALSE

\* no two players hold the same positive rank
RanksDistinct ==
  \A i, j \in DOMAIN Players :
    i # j /\ Players[i].rank > 0 => Players[i].rank # Players[j].rank

\* a step that gives a rank gives it to one player, in an add_answer call, and
\* the k-th rank given is k: one more than the ranks given so far, above them all
RankStep ==
  \A i \in DOMAIN game'.players :
    LET before == IF i \in DOMAIN Players THEN Players[i].rank ELSE -1
        after  == game'.players[i].rank
    IN  after # before =>
          /\ last'.op = "add_answer"
          /\ before = -1
          /\ after = Cardinality(Ranked(game)) + 1
          /\ \A j \in DOMAIN game'.players \ {i} :
               /\ game'.players[j].rank < after
               /\ j \in DOMAIN Players
               /\ game'.players[j].rank = Players[j].rank

\* C1: across any sequence of add_player, remove_player and add_answer calls
\* the ranks handed out are 1, 2, 3, ... in the order in which add_answer
\* calls complete a player, and no two players hold the same positive rank.
C1_RankMonotonicity == [] RanksDistinct /\ [][RankStep]_vars

\* C1 witness: the player who joined second holds rank 1 and the one who
\* joined first rank 2, the latter just given by an add_answer call.
C1_Witness ==
  /\ Len(Players) >= 2
  /\ Players[2].rank = 1
  /\ Players[1].rank = 2
  /\ last.op = "add_answer" /\ last.user = Players[1].user /\ last.ret[1] = TRUE

\* a player who is over keeps its whole state, and the calls for it are rejected
TerminalStep ==
  \A i \in DOMAIN Players :
    Player_over(Players[i]) =>
      /\ i \in DOMAIN game'.players
      /\ game'.players[i] = Players[i]
      /\ last'.user = Players[i].user /\ last'.op = "add_answer"
           => last'.ret[1] = FALSE
      /\ last'.user = Players[i].user /\ last'.op = "remove_player"
           => last'.ret = FALSE

\* remove_player changes no rank
RemoveGivesNoRank ==
  last'.op = "remove_player" =>
    /\ DOMAIN game'.players = DOMAIN Players
    /\ \A i \in DOMAIN Players : game'.players[i].rank = Players[i].rank

\* C2: Found and Left are terminal: once a player is complete or has left,
\* every later add_answer and remove_player for it is rejected and its rank,
\* left flag, letters and answers never change; remove_player never assigns
\* a rank, and a player who left has rank -1.
C2_TerminalStates ==
  /\ [] (\A i \in DOMAIN Players : Players[i].left => Players[i].rank = -1)
  /\ [][TerminalStep /\ RemoveGivesNoRank]_vars

\* C2 witness: a player who left after a guess has just had a guess rejected,
\* and another player has found the word.
C2_Witness ==
  /\ last.op = "add_answer" /\ last.ret[1] = FALSE
  /\ \E i, j \in DOMAIN Players :
       /\ Players[i].user = last.user
       /\ Players[i].left /\ Player_answered(Players[i])
       /\ Players[j].rank > 0

\* a player is complete exactly when it holds a positive rank
CompleteIffRanked ==
  \A i \in DOMAIN Players : found(Players[i]) <=> Players[i].rank > 0

\* a rank is written only by the add_answer call in which the player's letters
\* become fully known, and a rank once written is not written again
RankWrittenOnCompletion ==
  \A i \in DOMAIN game'.players :
    LET before == IF i \in DOMAIN Players THEN Players[i].rank ELSE -1
    IN  game'.players[i].rank # before =>
          /\ before = -1
          /\ last'.op = "add_answer" /\ last'.user = game'.players[i].user
          /\ i \in DOMAIN Players /\ ~found(Players[i])
          /\ found(game'.players[i])

\* C3: in every reachable state, for every hidden-word length (length 1
\* included) and every player, the player is complete (no None in its
\* letters) if and only if its rank is positive; the rank is written exactly
\* once, in the add_answer call in which the letters become fully known.
C3_CompleteIffRanked == [] CompleteIffRanked /\ [][RankWrittenOnCompletion]_vars

\* C4: a rejected add_answer changes nothing: the players, their letters,
\* answers, rank and left flag, and next_rank are as before the call.
C4_RejectedAnswerChangesNothing == [][RejectedAnswer => game' = game]_vars

\* C4 witness: a guess of the right length that is not in the dictionary has
\* just been rejected for a player who holds an earlier answer.
C4_Witness ==
  /\ last.op = "add_answer" /\ last.ret = <<FALSE, NotInDictionary>>
  /\ \E i \in DOMAIN Players :
       /\ Players[i].user = last.user
       /\ Player_answered(Players[i])

\* the player of user u is in the game and not over
Active(u) == InPlayers(game, u) /\ ~Player_over(get_player(game, u))

\* C5: for a player who is not over, a guess whose normalized form is the
\* hidden word is accepted (never "not in the dictionary"), and in that call
\* the player becomes complete with rank equal to next_rank before the call,
\* whatever letters the player had revealed before.
C5_ExactGuessCompletes ==
  \A u \in Users, raw \in RawWords :
    Active(u) /\ normalize(raw) = game.hidden_word =>
      LET r == add_answer(game, u, raw)
          p == get_player(r.game, u)
      IN  /\ r.ret = <<TRUE, None>>
          /\ found(p)
          /\ p.rank = game.next_rank
          /\ r.game.next_rank = game.next_rank + 1

\* C5 witness: the second player to finish has just guessed the hidden word
\* itself, after an earlier guess that revealed nothing, and holds rank 2.
C5_Witness ==
  /\ last.op = "add_answer" /\ last.ret = <<TRUE, None>>
  /\ game.next_rank = 3
  /\ \E i \in DOMAIN Players :
       LET p == Players[i]
       IN  /\ p.user = last.user
           /\ p.rank = 2
           /\ Len(p.answers) = 2
           /\ FOUND \notin Range(Tail(p.answers[1].types))
           /\ p.answers[2].letters = game.hidden_word

\* C6: add_answer checks the length before the dictionary: for a player who
\* is not over, a guess normalized to fewer letters than the hidden word is
\* rejected as too short and one with more letters as too long, in the
\* dictionary or not; "not in the dictionary" is returned only for a guess
\* whose normalized length is that of the hidden word.
C6_LengthBeforeDictionary ==
  \A u \in Users, raw \in RawWords :
    LET r == add_answer(game, u, raw)
        n == Len(normalize(raw))
        L == Len(game.hidden_word)
    IN  /\ Active(u) /\ n < L => r.ret = <<FALSE, TooShort>>
        /\ Active(u) /\ n > L => r.ret = <<FALSE, TooLong>>
        /\ r.ret[2] = NotInDictionary => n = L

\* C6 witness: a guess has just been rejected as too short, and a word of
\* the dictionary is among the guesses this player gets that answer for; the
\* same holds of too long for a word that is not in the dictionary.
C6_Witness ==
  /\ last.op = "add_answer" /\ last.ret = <<FALSE, TooShort>>
  /\ \E raw \in RawWords :
       /\ contains(normalize(raw))
       /\ add_answer(game, last.user, raw).ret = <<FALSE, TooShort>>
  /\ \E raw \in RawWords :
       /\ ~contains(normalize(raw))
       /\ add_answer(game, last.user, raw).ret = <<FALSE, TooLong>>

\* C7 as claimed: add_answer for a user who is not in the game returns the
\* reason NoSuchPlayer and for a player who is over the reason AlreadyOver,
\* so the two returned values differ from each other.
C7_DistinctReasons ==
  \A u, v \in Users, raw \in RawWords :
    /\ ~InPlayers(game, u) => add_answer(game, u, raw).ret = <<FALSE, "NoSuchPlayer">>
    /\ InPlayers(game, v) /\ Player_over(get_player(game, v))
         => add_answer(game, v, raw).ret = <<FALSE, "AlreadyOver">>
    /\ ~InPlayers(game, u) /\ InPlayers(game, v) /\ Player_over(get_player(game, v))
         => add_answer(game, u, raw).ret # add_answer(game, v, raw).ret

\* C7 (amended): add_answer for a user who is not in the game and for a
\* player who is over both return (False, None), whatever the guess; every
\* other rejection carries one of the three reasons, so the host can tell
\* these two rejections from the others but not from each other.
C7_SilentRejections ==
  \A u \in Users, raw \in RawWords :
    LET r == add_answer(game, u, raw)
    IN  /\ ~Active(u) => r.ret = <<FALSE, None>> /\ r.game = game
        /\ Active(u) /\ r.ret[1] = FALSE
             => r.ret[2] \in {TooShort, TooLong, NotInDictionary}

\* C7 witness: a guess by a player who has found the word has just been
\* rejected with (False, None) while another user is not in the game.
C7_Witness ==
  /\ last.op = "add_answer" /\ last.ret = <<FALSE, None>>
  /\ InPlayers(game, last.user) /\ get_player(game, last.user).rank > 0
  /\ \E u \in Users : ~InPlayers(game, u)

\* a user is the key of at most one item of players
OnePlayerPerUser ==
  \A i, j \in DOMAIN Players : Players[i].user = Players[j].user => i = j

\* the state of a player who has just joined: the first letter of the hidden
\* word revealed and no other, rank -1, not left, no answers
IsFresh(p, u) ==
  /\ p.user = u
  /\ p.rank = -1
  /\ p.left = FALSE
  /\ p.answers = <<>>
  /\ DOMAIN p.letters = DOMAIN game.hidden_word
  /\ \A k \in DOMAIN p.letters :
       p.letters[k] = IF k = 1 THEN game.hidden_word[1] ELSE None

\* C8: add_player with a user already in the game returns False and leaves
\* every player and next_rank as they are, at any point of the game; there
\* is at most one player per user; a fresh player (first letter revealed,
\* rank -1, not left, no answers) is created only for a user not yet there.
C8_AddPlayerOnce ==
  /\ OnePlayerPerUser
  /\ \A u \in Users :
       LET r == add_player(game, u)
       IN  IF InPlayers(game, u)
           THEN r.ret = FALSE /\ r.game = game
           ELSE /\ r.ret = TRUE
                /\ Len(r.game.players) = Len(Players) + 1
                /\ SubSeq(r.game.players, 1, Len(Players)) = Players
                /\ IsFresh(r.game.players[Len(Players) + 1], u)
                /\ r.game.next_rank = game.next_rank
                /\ r.game.hidden_word = game.hidden_word
  /\ last.op = "add_player" =>
       IF last.ret THEN IsFresh(get_player(game, last.user), last.user)
       ELSE InPlayers(game, last.user)

\* C8 witness: add_player has just returned False for a player who had found
\* the word after two guesses, next to a player who left.
C8_Witness ==
  /\ last.op = "add_player" /\ last.ret = FALSE
  /\ get_player(game, last.user).rank > 0
  /\ Len(get_player(game, last.user).answers) = 2
  /\ \E i \in DOMAIN Players : Players[i].left

\* the first letter is known
FirstLetterKnown ==
  \A i \in DOMAIN Players :
    Len(Players[i].letters) >= 1 /\ Players[i].letters[1] # None

\* a letter that is known is the same letter after the step
LettersKept ==
  \A i \in DOMAIN Players :
    /\ i \in DOMAIN game'.players
    /\ DOMAIN game'.players[i].letters = DOMAIN Players[i].letters
    /\ \A k \in DOMAIN Players[i].letters :
         Players[i].letters[k] # None
           => game'.players[i].letters[k] = Players[i].letters[k]

\* C9: for every player and position, once the letter at that position is
\* known it is that same letter after every later operation of the game;
\* the first position is known from the creation of the player.
C9_LettersMonotonic == [] FirstLetterKnown /\ [][LettersKept]_vars

\* C9 witness: a player holds, after a second guess that missed it, a letter
\* its first guess revealed, and the second guess missed the first letter too.
C9_Witness ==
  \E i \in DOMAIN Players :
    LET p == Players[i]
    IN  /\ Len(p.answers) = 2
        /\ p.answers[2].types[1] # FOUND
        /\ \E k \in DOMAIN p.letters :
             /\ k > 1
             /\ p.answers[1].types[k] = FOUND
             /\ p.answers[2].types[k] # FOUND
             /\ p.letters[k] = p.answers[1].letters[k]

\* s holds every player of the game exactly once
IsPermutationOfPlayers(s) ==
  /\ Len(s) = Len(Players)
  /\ \A i \in DOMAIN Players :
       Cardinality({j \in DOMAIN s : s[j] = Players[i]}) = 1

\* ranked players first by ascending rank, the unranked after all of them
RankedFirstAscending(s) ==
  \A j, k \in DOMAIN s :
    j < k =>
      /\ s[j].rank > 0 /\ s[k].rank > 0 => s[j].rank < s[k].rank
      /\ s[k].rank > 0 => s[j].rank > 0

\* C10: in any reachable state get_sorted_players returns every player
\* exactly once, the ranked players first in ascending rank order and every
\* unranked player (rank -1) after all the ranked players.
C10_SortedPlayers ==
  /\ IsPermutationOfPlayers(get_sorted_players(game))
  /\ RankedFirstAscending(get_sorted_players(game))
  /\ last.op = "get_sorted_players" => last.ret = get_sorted_players(game)

\* C10 witness: get_sorted_players has just returned, for a game whose first
\* player left without a rank and whose second player holds rank 1, the
\* second player before the first.
C10_Witness ==
  /\ last.op = "get_sorted_players"
  /\ Len(Players) = 2
  /\ Players[1].rank = -1 /\ Players[1].left
  /\ Players[2].rank = 1
  /\ last.ret = <<Players[2], Players[1]>>

\* the positive ranks held are 1 .. next_rank - 1, each by one player
RanksFillPrefix ==
  /\ game.next_rank = 1 + Cardinality(Ranked(game))
  /\ {Players[i].rank : i \in Ranked(game)} = 1..(game.next_rank - 1)

\* next_rank does not decrease, and moves only in an add_answer call that is
\* accepted and completes the player of the call
NextRankStep ==
  /\ game'.next_rank >= game.next_rank
  /\ game'.next_rank # game.next_rank =>
       /\ last'.op = "add_answer" /\ last'.ret[1] = TRUE
       /\ ~found(get_player(game, last'.user))
       /\ found(get_player(game', last'.user))

\* C19: in every reachable state next_rank is 1 plus the number of players
\* with a positive rank, and the positive ranks held are exactly
\* 1 .. next_rank - 1; next_rank never decreases and changes only in an
\* add_answer call that completes a player.
C19_NextRank == [] RanksFillPrefix /\ [][NextRankStep]_vars

\* C19 witness: an accepted guess that did not complete its player has just
\* left next_rank at 2, one player holding rank 1.
C19_Witness ==
  /\ last.op = "add_answer" /\ last.ret[1] = TRUE
  /\ ~found(get_player(game, last.user))
  /\ game.next_rank = 2
  /\ \E i \in DOMAIN Players : Players[i].rank = 1

(***************************************************************************)
(* Answer.check on its own: a guess and a hidden word of the same length   *)
(* are drawn, then scored: scored holds the two words and, once done, the  *)
(* types returned.                                                         *)
(***************************************************************************)
\* longest word scored
MaxWordLen == 3

CheckLetters == {"a", "b", "r"}

RADAR == <<"r", "a", "d", "a", "r">>
ARBRE == <<"a", "r", "b", "r", "e">>

\* the pairs of words of equal length that are scored
CheckPairs ==
  UNION {[1..n -> CheckLetters] \X [1..n -> CheckLetters] : n \in 0..MaxWordLen}
    \cup {<<RADAR, ARBRE>>}

\* a pair of words is drawn; it is not scored yet
CheckInit ==
  /\ \E pair \in CheckPairs :
       scored = [word |-> pair[1], hidden_word |-> pair[2],
                 done |-> FALSE, types |-> <<>>]
  /\ game = Idle
  /\ last = Idle
  /\ stats = Idle
  /\ client = Idle

\* Answer.check(word, hidden_word) is called
ScoreGuess ==
  /\ ~scored.done
  /\ scored' = [scored EXCEPT !.done = TRUE,
                              !.types = check(scored.word, scored.hidden_word)]
  /\ UNCHANGED <<vars, stats, client>>

CheckNext == ScoreGuess

SpecCheck == CheckInit /\ [][CheckNext]_<<vars, others>>

\* the positions of word that hold the letter c
Positions(word, c) == {i \in DOMAIN word : word[i] = c}

\* the positions where the guess and the hidden word hold the same letter
Matches(word, hidden_word) ==
  {i \in DOMAIN word : i \in DOMAIN hidden_word /\ word[i] = hidden_word[i]}

\* the positions of the guess that hold c and are classified FOUND or EXIST
Credited(sc, c) ==
  {i \in DOMAIN sc.types : sc.word[i] = c /\ sc.types[i] \in {FOUND, EXIST}}

\* C11: for every pair of equal-length words check returns exactly L types;
\* the number of FOUND positions is the number of positions where guess and
\* hidden word agree; and for every letter c the positions holding c that
\* are FOUND or EXIST are at most as many as the occurrences of c in hidden.
C11_CheckCounts ==
  scored.done =>
    /\ Len(scored.types) = Len(scored.hidden_word)
    /\ Cardinality({i \in DOMAIN scored.types : scored.types[i] = FOUND})
         = Cardinality(Matches(scored.word, scored.hidden_word))
    /\ \A c \in Letters :
         Cardinality(Credited(scored, c))
           <= Cardinality(Positions(scored.hidden_word, c))

\* C11 witness: a guess with three occurrences of a letter the hidden word
\* holds once, at a position where the guess matches it, has been scored.
C11_Witness ==
  /\ scored.done
  /\ \E c \in Letters :
       /\ Cardinality(Positions(scored.word, c)) = 3
       /\ Cardinality(Positions(scored.hidden_word, c)) = 1
       /\ Cardinality(Matches(scored.word, scored.hidden_word)) = 1

\* C12 as claimed: RADAR against ARBRE gives EXIST, EXIST, WRONG, WRONG, WRONG.
C12_RadarAsClaimed ==
  scored.done /\ scored.word = RADAR /\ scored.hidden_word = ARBRE
    => scored.types = <<EXIST, EXIST, WRONG, WRONG, WRONG>>

\* C12 (amended): RADAR against ARBRE gives EXIST, EXIST, WRONG, WRONG, EXIST:
\* the final R is EXIST, ARBRE holding two R's of which the first R of the
\* guess took one.
C12_Radar ==
  scored.done /\ scored.word = RADAR /\ scored.hidden_word = ARBRE
    => scored.types = <<EXIST, EXIST, WRONG, WRONG, EXIST>>

\* C12 witness: RADAR has been scored against ARBRE.
C12_Witness ==
  scored.done /\ scored.word = RADAR /\ scored.hidden_word = ARBRE

\* the positions of the guess that hold c and do not match the hidden word
Unmatched(sc, c) ==
  {i \in Positions(sc.word, c) : i \notin Matches(sc.word, sc.hidden_word)}

\* C17: for every pair of equal-length words and every letter c the positions
\* of the guess holding c that are FOUND or EXIST are min(occurrences of c in
\* the guess, occurrences of c in hidden); the positions that match are
\* FOUND, the EXIST marks of c go to its leftmost positions that do not
\* match, and its remaining positions are WRONG.
C17_CheckExact ==
  scored.done =>
    /\ \A c \in Letters :
         Cardinality(Credited(scored, c))
           = Min(Cardinality(Positions(scored.word, c)),
                 Cardinality(Positions(scored.hidden_word, c)))
    /\ \A i \in DOMAIN scored.word :
         LET c     == scored.word[i]
             spare == Cardinality(Positions(scored.hidden_word, c))
                        - Cardinality(Positions(scored.word, c)
                                        \cap Matches(scored.word, scored.hidden_word))
             nth   == Cardinality({j \in Unmatched(scored, c) : j <= i})
         IN  scored.types[i] =
               IF i \in Matches(scored.word, scored.hidden_word) THEN FOUND
               ELSE IF nth <= spare THEN EXIST
               ELSE WRONG

\* C17 witness: a guess whose first two letters are one letter, which the
\* hidden word holds once and at neither of these positions, has been scored
\* EXIST for the first of them and WRONG for the second.
C17_Witness ==
  /\ scored.done
  /\ Len(scored.types) = 3
  /\ scored.word[1] = scored.word[2]
  /\ Cardinality(Positions(scored.hidden_word, scored.word[1])) = 1
  /\ scored.types[1] = EXIST /\ scored.types[2] = WRONG

(***************************************************************************)
(* Statistics.  A Counter is a function from the keys it holds to their    *)
(* counts.  A text is a sequence of characters; the text json.dumps makes  *)
(* of a Counter is the function from the text of each key to the text of   *)
(* its count (JSON object keys are strings, the counts JSON numbers).  A   *)
(* file is the sequence of its lines.                                      *)
(***************************************************************************)
\* counter[key], which reads 0 for a key the Counter does not hold
Get(counter, key) == IF key \in DOMAIN counter THEN counter[key] ELSE 0

\* counter[key] += n
Add(counter, key, n) ==
  [k \in DOMAIN counter \cup {key} |->
     Get(counter, k) + (IF k = key THEN n ELSE 0)]

RECURSIVE SumOver(_, _)
SumOver(counter, keys) ==
  IF keys = {} THEN 0
  ELSE LET k == CHOOSE x \in keys : TRUE
       IN  counter[k] + SumOver(counter, keys \ {k})

\* sum(counter.values())
SumValues(counter) == SumOver(counter, DOMAIN counter)

Digits == <<"0", "1", "2", "3", "4", "5", "6", "7", "8", "9">>

RECURSIVE NatToText(_)
NatToText(n) ==
  IF n < 10 THEN <<Digits[n + 1]>>
  ELSE NatToText(n \div 10) \o <<Digits[(n % 10) + 1]>>

\* str(n), and the JSON text of the integer n
IntToText(n) == IF n < 0 THEN <<"-">> \o NatToText(-n) ELSE NatToText(n)

DigitValue(c) == (CHOOSE d \in DOMAIN Digits : Digits[d] = c) - 1

RECURSIVE TextToNat(_)
TextToNat(t) ==
  IF Len(t) = 1 THEN DigitValue(t[1])
  ELSE 10 * TextToNat(SubSeq(t, 1, Len(t) - 1)) + DigitValue(t[Len(t)])

\* the integer read without its sign
TextToInt_Unsigned(t) == IF t[1] = "-" THEN TextToNat(Tail(t)) ELSE TextToNat(t)

\* int(t), and the integer of the JSON number t
TextToInt(t) == IF t[1] = "-" THEN -TextToNat(Tail(t)) ELSE TextToNat(t)

\* the text json.dumps gives a key: an int key becomes its decimal text, a
\* str key is the text it is
KeyText(key, type) == IF type = "int" THEN IntToText(key) ELSE key

\* json.dumps(counter) of a Counter whose keys have the given type
json_dumps(counter, type) ==
  [t \in {KeyText(k, type) : k \in DOMAIN counter} |->
     IntToText(counter[CHOOSE k \in DOMAIN counter : KeyText(k, type) = t])]

\* Counter(json.loads(line)): the keys are strings
json_loads(line) == [t \in DOMAIN line |-> TextToInt(line[t])]

\* PlayerStats.__init__
PlayerStats == [ranks |-> <<>>, words |-> <<>>, num_words_when_found |-> 0]

RECURSIVE CountWords(_, _, _)
\* self.words.update(answer.letters for answer in player.answers)
CountWords(words, answers, i) ==
  IF i > Len(answers) THEN words
  ELSE CountWords(Add(words, answers[i].letters, 1), answers, i + 1)

PlayerStats_update(ps, player) ==
  [ranks |-> Add(ps.ranks, player.rank, 1),
   words |-> CountWords(ps.words, player.answers, 1),
   num_words_when_found |->
     IF found(player) THEN ps.num_words_when_found + Len(player.answers)
     ELSE ps.num_words_when_found]

\* the lines PlayerStats.save writes
PlayerStats_save(ps) ==
  <<json_dumps(ps.ranks, "int"), json_dumps(ps.words, "str"),
    IntToText(ps.num_words_when_found)>>

\* Counter({ int(rank) : num for rank, num in json.loads(line).items() })
LoadRanks(line) ==
  LET d == json_loads(line)
  IN  [r \in {TextToInt(t) : t \in DOMAIN d} |->
         d[CHOOSE t \in DOMAIN d : TextToInt(t) = r]]

\* what PlayerStats.load makes of the lines of a file that exists
PlayerStats_parse(lines) ==
  [ranks |-> LoadRanks(lines[1]),
   words |-> json_loads(lines[2]),
   num_words_when_found |-> TextToInt(lines[3])]

\* GamesStats.__init__
GamesStats == [hidden_words |-> <<>>, num_players |-> 0]

GamesStats_update(gs, g) ==
  [hidden_words |-> Add(gs.hidden_words, g.hidden_word, 1),
   num_players  |-> gs.num_players + Len(g.players)]

\* the lines GamesStats.save writes
GamesStats_save(gs) ==
  <<json_dumps(gs.hidden_words, "str"), IntToText(gs.num_players)>>

\* what GamesStats.load makes of the lines of a file that exists
GamesStats_parse(lines) ==
  [hidden_words |-> json_loads(lines[1]),
   num_players  |-> TextToInt(lines[2])]

\* PlayerStats.get_emojis: "no data", or the figures of the text, each
\* quotient as <<dividend, divisor>>
PlayerStats_get_emojis_PlayedTest(ps) ==
  LET num_played    == SumValues(ps.ranks)
      num_not_found == Get(ps.ranks, -1)
      num_found     == num_played - num_not_found
  IN  IF num_played = 0
      THEN [kind |-> "no data"]
      ELSE [kind |-> "figures",
            num_played |-> num_played,
            percentage_found |-> <<100 * num_found, num_played>>,
            mean_num_words_when_found |-> <<ps.num_words_when_found, num_found>>]

PlayerStats_get_emojis(ps) ==
  LET num_played    == SumValues(ps.ranks)
      num_not_found == Get(ps.ranks, -1)
      num_found     == num_played - num_not_found
  IN  IF num_found = 0
      THEN [kind |-> "no data"]
      ELSE [kind |-> "figures",
            num_played |-> num_played,
            percentage_found |-> <<100 * num_found, num_played>>,
            mean_num_words_when_found |-> <<ps.num_words_when_found, num_found>>]

\* GamesStats.get_emojis
GamesStats_get_emojis(gs) ==
  LET num_games == SumValues(gs.hidden_words)
  IN  IF num_games = 0
      THEN [kind |-> "no data"]
      ELSE [kind |-> "figures",
            num_games |-> num_games,
            mean_num_players |-> <<gs.num_players, num_games>>]

(***************************************************************************)
(* Stats: the statistics in memory and the files of the folder.  The file  *)
(* games.txt has the name 0 and the file of a user the user's id; files    *)
(* maps the names of the files that exist to their lines.                  *)
(***************************************************************************)
\* the name of a file: games.txt, or <id>.txt
get_games_stats_filename == 0
get_player_stats_filename(user) == user

\* PlayerStats.load / GamesStats.load: a missing file gives the empty object
PlayerStats_load(files, name) ==
  IF name \in DOMAIN files THEN PlayerStats_parse(files[name]) ELSE PlayerStats

GamesStats_load(files, name) ==
  IF name \in DOMAIN files THEN GamesStats_parse(files[name]) ELSE GamesStats

\* Stats.__init__: the games statistics are loaded, no player is
Stats(files) ==
  [games_stats   |-> GamesStats_load(files, get_games_stats_filename),
   players_stats |-> <<>>]

\* self.players_stats after "if user not in self.players_stats: ... load"
WithPlayerLoaded(st, files, user) ==
  IF user \in DOMAIN st.players_stats THEN st
  ELSE [st EXCEPT !.players_stats =
          [u \in DOMAIN st.players_stats \cup {user} |->
             IF u = user
             THEN PlayerStats_load(files, get_player_stats_filename(user))
             ELSE st.players_stats[u]]]

RECURSIVE UpdatePlayers(_, _, _, _)
\* the loop of Stats.update over game.players.items()
UpdatePlayers(st, files, g, i) ==
  IF i > Len(g.players) THEN st
  ELSE LET user   == g.players[i].user
           loaded == WithPlayerLoaded(st, files, user)
       IN  UpdatePlayers(
             [loaded EXCEPT !.players_stats[user] =
                PlayerStats_update(@, g.players[i])],
             files, g, i + 1)

Stats_update(st, files, g) ==
  UpdatePlayers([st EXCEPT !.games_stats = GamesStats_update(@, g)], files, g, 1)

\* the files after Stats.save: games.txt and the file of every player loaded
Stats_save(st, files) ==
  [name \in DOMAIN files \cup {get_games_stats_filename}
             \cup {get_player_stats_filename(u) : u \in DOMAIN st.players_stats} |->
     IF name = get_games_stats_filename THEN GamesStats_save(st.games_stats)
     ELSE IF name \in DOMAIN st.players_stats
     THEN PlayerStats_save(st.players_stats[name])
     ELSE files[name]]

(***************************************************************************)
(* The statistics over the life of the bot: games are folded and saved,    *)
(* views are asked for, and the bot restarts and loads what the files      *)
(* hold.  stats is [st, files, view]: the Stats object, the files of the   *)
(* folder, and the last view given.                                        *)
(***************************************************************************)
MaxFolds == 3

\* a game after the steps of a script, each step <<"answer", user, word>> or
\* <<"leave", user>>
RECURSIVE Play(_, _, _)
Play(g, script, i) ==
  IF i > Len(script) THEN g
  ELSE LET step == script[i]
       IN  Play(IF step[1] = "answer"
                THEN add_answer(g, step[2], step[3]).game
                ELSE remove_player(g, step[2]).game,
                script, i + 1)

\* the users, the index of the hidden word in the choices, and the steps
Scripts ==
  { <<<<1, 2>>, 1, << <<"answer", 1, <<"a", "b">>>>, <<"answer", 2, <<"b", "b">>>>,
                      <<"leave", 2>> >> >>,
    <<<<1, 2>>, 1, << <<"answer", 2, <<"b", "b">>>>, <<"answer", 2, <<"a", "b">>>>,
                      <<"answer", 1, <<"a", "b">>>> >> >>,
    <<<<2>>,    3, << <<"answer", 2, <<"a", "a", "b">>>>, <<"answer", 2, <<"a", "b", "b">>>> >> >>,
    <<<<1>>,    3, << <<"answer", 1, <<"b", "b", "a">>>>, <<"leave", 1>> >> >>,
    <<<<1, 2>>, 3, << <<"answer", 2, <<"a", "a", "b">>>> >> >>,
    <<<<2>>,    3, << <<"answer", 2, <<"b", "b", "a">>>> >> >> }

\* the games sutom_stop folds: games that were answered
PlayedGames ==
  { g \in { Play(Game(sc[1], choices[sc[2]]), sc[3], 1) : sc \in Scripts } :
      Game_answered(g) }

\* no view was given
NoView == [of |-> -1, emojis |-> [kind |-> "none"]]

\* the games folded so far
Folds(s) == SumValues(s.st.games_stats.hidden_words)

StatsInit ==
  /\ stats = [st |-> Stats(<<>>), files |-> <<>>, view |-> NoView]
  /\ game = Idle
  /\ last = Idle
  /\ scored = Idle
  /\ client = Idle

\* self.sutom_stats.update(self.sutom_game); self.sutom_stats.save()
Fold(g) ==
  /\ Folds(stats) < MaxFolds
  /\ LET st == Stats_update(stats.st, stats.files, g)
     IN  stats' = [st |-> st, files |-> Stats_save(st, stats.files), view |-> NoView]
  /\ UNCHANGED <<vars, scored, client>>

\* Stats.get_player_stats_emojis(user)
PlayerView(user) ==
  /\ LET st == WithPlayerLoaded(stats.st, stats.files, user)
     IN  stats' = [stats EXCEPT !.st = st,
                     !.view = [of |-> user,
                               emojis |-> PlayerStats_get_emojis(st.players_stats[user])]]
  /\ UNCHANGED <<vars, scored, client>>

\* self.sutom_stats.games_stats.get_emojis()
GamesView ==
  /\ stats' = [stats EXCEPT !.view =
                 [of |-> 0, emojis |-> GamesStats_get_emojis(stats.st.games_stats)]]
  /\ UNCHANGED <<vars, scored, client>>

\* the bot starts again: Stats(folder)
Restart ==
  /\ stats' = [stats EXCEPT !.st = Stats(stats.files), !.view = NoView]
  /\ UNCHANGED <<vars, scored, client>>

StatsNext ==
  \/ \E g \in PlayedGames : Fold(g)
  \/ \E user \in Users : PlayerView(user)
  \/ GamesView
  \/ Restart

SpecStats == StatsInit /\ [][StatsNext]_<<vars, others>>

\* the player statistics held in memory
PlayersInMemory == {stats.st.players_stats[u] : u \in DOMAIN stats.st.players_stats}

\* C14: saving then loading a PlayerStats or a GamesStats gives it back: every
\* statistics object in memory, the all-zero ones included, is equal to what
\* load makes of the lines save writes of it, counters (the rank keys as
\* integers) and totals alike; and a restart loads from the files the games
\* statistics that were in memory.
C14_SaveLoadRoundTrip ==
  /\ \A ps \in PlayersInMemory : PlayerStats_parse(PlayerStats_save(ps)) = ps
  /\ GamesStats_parse(GamesStats_save(stats.st.games_stats)) = stats.st.games_stats
  /\ \A u \in DOMAIN stats.st.players_stats \cap DOMAIN stats.files :
       PlayerStats_load(stats.files, u) = stats.st.players_stats[u]
  /\ get_games_stats_filename \in DOMAIN stats.files
       => GamesStats_load(stats.files, get_games_stats_filename) = stats.st.games_stats

\* C14 witness: a player's statistics that were saved and loaded again at a
\* restart hold a count in the -1 bucket and one in the bucket of rank 1,
\* while another player's statistics are all zero.
C14_Witness ==
  /\ \E ps \in PlayersInMemory :
       /\ Get(ps.ranks, -1) > 0
       /\ Get(ps.ranks, 1) > 0
       /\ ps.num_words_when_found > 0
  /\ PlayerStats \in PlayersInMemory
  /\ Folds(stats) > 0

\* a view never divides by zero
NoDivisionByZero(emojis) ==
  emojis.kind = "figures" =>
    \A f \in DOMAIN emojis \ {"kind", "num_played", "num_games"} : emojis[f][2] # 0

\* C15: what is loaded from a missing file is all zero, and no view divides
\* by zero: the player view says "no data" when the games played minus the
\* -1 bucket is 0, the games view when the number of games is 0.
C15_ViewsWithoutData ==
  /\ \A u \in DOMAIN stats.st.players_stats \ DOMAIN stats.files :
       stats.st.players_stats[u] = PlayerStats
  /\ get_games_stats_filename \notin DOMAIN stats.files
       => stats.st.games_stats = GamesStats
  /\ stats.view # NoView =>
       /\ NoDivisionByZero(stats.view.emojis)
       /\ stats.view.of \in Users =>
            LET ps == stats.st.players_stats[stats.view.of]
            IN  SumValues(ps.ranks) - Get(ps.ranks, -1) = 0
                  => stats.view.emojis.kind = "no data"
       /\ stats.view.of = 0 =>
            (Folds(stats) = 0 => stats.view.emojis.kind = "no data")

\* C15 witness: a player who played and never found is told there is no data.
C15_Witness ==
  /\ stats.view # NoView
  /\ stats.view.of \in Users
  /\ stats.view.emojis.kind = "no data"
  /\ SumValues(stats.st.players_stats[stats.view.of].ranks) > 0

(***************************************************************************)
(* The Client.  Its handlers are coroutines: a handler runs from the event *)
(* to its first await in one step, and each later step runs a waiting      *)
(* handler from the await it is at to the next.  client holds              *)
(*   message, game   self.sutom_message is set; self.sutom_game, 0 for     *)
(*                   None or the number of a Game object                   *)
(*   previous_hidden_word   self.sutom_previous_hidden_word                *)
(*   objects         the Game objects made so far, each with the times     *)
(*                   Stats.update and Stats.save were called on it         *)
(*   joined, deleted the users whose JOIN reaction is on the message, and  *)
(*                   whether the message was deleted                       *)
(*   sessions        the "sutom" messages that opened a session            *)
(*   tasks, waiting  the handlers waiting at an await, and how many may    *)
(*                   wait when an event is handled                         *)
(*   error           the handler that last ended with the AttributeError   *)
(*                   of reading an attribute of None, or None              *)
(***************************************************************************)
MaxSessions == 1
MaxGames == 2
MaxTasks == 2
MaxGuesses == 2

\* what the players send as guesses
Guesses == { <<"a", "b">>, <<"B", "-", "a">>, <<"a", "b", "b">> }

\* a handler waiting at the await pc; user is the user of its event and
\* object the Game object its local variable player belongs to (0: none)
Task(h, pc, user, object) == [h |-> h, pc |-> pc, user |-> user, object |-> object]

RECURSIVE Ascending(_)
\* reaction.users().flatten(): the users of the reaction, by id
Ascending(S) ==
  IF S = {} THEN <<>>
  ELSE LET u == CHOOSE x \in S : \A y \in S : x <= y
       IN  <<u>> \o Ascending(S \ {u})

\* Client.__init__, on a host that handles at most `waiting + 1` events at a
\* time
Client(waiting) ==
  [message |-> FALSE, game |-> 0, previous_hidden_word |-> None,
   objects |-> <<>>, joined |-> {}, deleted |-> FALSE,
   sessions |-> 0, tasks |-> EmptyBag, waiting |-> waiting, error |-> None]

ClientInit ==
  /\ client = Client(MaxTasks - 1)
  /\ game = Idle
  /\ last = Idle
  /\ scored = Idle
  /\ stats = Idle

\* a host that runs one event at a time: no event is handled while a handler
\* waits
SequentialInit ==
  /\ client = Client(0)
  /\ game = Idle
  /\ last = Idle
  /\ scored = Idle
  /\ stats = Idle

\* the host hands an event to the client
Dispatch == BagCardinality(client.tasks) <= client.waiting

\* self.sutom_game, when it is not None
CurrentGame == client.objects[client.game].game

\* the waiting handlers are a bag of tasks: one more, one less, and one
\* that goes on to wait somewhere else
With(tasks, t) == tasks (+) SetToBag({t})
Without(tasks, t) == tasks (-) SetToBag({t})
Moved(tasks, t, pc) == With(Without(tasks, t), [t EXCEPT !.pc = pc])
Waiting == BagToSet(client.tasks)

\* what is left of a Game object once nothing refers to it
Freed == [hidden_word |-> <<>>, players |-> <<>>, next_rank |-> 0]

\* the n-th Game object is self.sutom_game or the Game of a waiting handler's
\* local variable player
Referenced(c, n) == c.game = n \/ \E t \in BagToSet(c.tasks) : t.object = n

\* the Game objects nothing refers to any more are freed; how often each was
\* folded stays on record
Collect(c) ==
  [c EXCEPT !.objects =
     [n \in DOMAIN c.objects |->
        IF Referenced(c, n) THEN c.objects[n] ELSE [c.objects[n] EXCEPT !.game = Freed]]]

\* sutom_stop up to its first await
sutom_stop_enter(c) ==
  IF c.game = 0 THEN Task("stop", "presence", 0, 0) ELSE Task("stop", "sent", 0, 0)

\* the handler t ends with the AttributeError of self.sutom_game or
\* self.sutom_message being None where an attribute of it is read
Raised(c, t) == [c EXCEPT !.tasks = Without(@, t), !.error = t.h]

\* the handler t calls sutom_stop, which reads self.sutom_message.channel
\* before its first await
Stopping(c, t) ==
  IF ~c.message THEN [Raised(c, t) EXCEPT !.error = "stop"]
  ELSE [c EXCEPT !.tasks = With(Without(@, t), sutom_stop_enter(c))]

ClientUnchanged == UNCHANGED <<vars, scored, stats>>

\* on_sutom: the message "sutom" in a channel
OnSutom ==
  /\ Dispatch
  /\ client.sessions < MaxSessions
  /\ IF client.message
     THEN UNCHANGED client
     ELSE client' = [client EXCEPT !.message = TRUE, !.game = 0, !.joined = {},
                                   !.deleted = FALSE, !.sessions = @ + 1]
  /\ ClientUnchanged

\* on_reaction_add, JOIN: sutom_join(user) up to its first await
ReactionAddJoin(user) ==
  /\ Dispatch
  /\ client.message /\ ~client.deleted
  /\ user \notin client.joined
  /\ IF client.game = 0
     THEN client' = [client EXCEPT !.joined = @ \cup {user}]
     ELSE LET r == add_player(CurrentGame, user)
          IN  client' = [client EXCEPT
                !.joined = @ \cup {user},
                !.objects[client.game].game = r.game,
                !.tasks = IF r.ret THEN With(@, Task("join", "sent", user, 0)) ELSE @]
  /\ ClientUnchanged

\* sutom_join after its first send: self.sutom_game.get_player(user) is read
\* (a KeyError, when the Game does not hold the user, ends the handler too)
JoinSent(t) ==
  /\ t.h = "join"
  /\ client' = IF client.game = 0 THEN Raised(client, t)
               ELSE [client EXCEPT !.tasks = Without(@, t)]
  /\ ClientUnchanged

\* on_reaction_add, PLAY by the author: sutom_start up to
\* "await reaction.users().flatten()"
ReactionAddPlay ==
  /\ Dispatch
  /\ client.message /\ ~client.deleted
  /\ Len(client.objects)
       + CopiesIn(Task("start", "fetch", 0, 0), client.tasks) < MaxGames
  /\ IF client.game # 0
     THEN UNCHANGED client
     ELSE client' = [client EXCEPT !.tasks = With(@, Task("start", "fetch", 0, 0))]
  /\ ClientUnchanged

\* sutom_start once the users are fetched: the Game is made and assigned,
\* and self.sutom_message.channel is read for the send; the handler keeps
\* the first of its users
StartFetched(t) ==
  /\ t.h = "start" /\ t.pc = "fetch"
  /\ \E k \in DOMAIN choices :
       LET users   == Ascending(client.joined)
           started == [client EXCEPT
             !.objects = Append(@, [game |-> Game(users, choices[k]),
                                    updates |-> 0, saves |-> 0]),
             !.game = Len(client.objects) + 1]
           first   == IF users = <<>> THEN 0 ELSE users[1]
       IN  client' = Collect(
             IF ~client.message THEN Raised(started, t)
             ELSE [started EXCEPT !.tasks =
                     With(Without(@, t), Task("start", "sent", first, 0))])
  /\ ClientUnchanged

\* sutom_start after the send that says the game begins: with users,
\* self.sutom_game.get_player(user) is read
StartSent(t) ==
  /\ t.h = "start" /\ t.pc = "sent"
  /\ client' = IF t.user # 0 /\ client.game = 0 THEN Raised(client, t)
               ELSE [client EXCEPT !.tasks = Without(@, t)]
  /\ ClientUnchanged

\* on_reaction_add, STOP by the author: sutom_stop up to its first await
ReactionAddStop ==
  /\ Dispatch
  /\ client.message /\ ~client.deleted
  /\ client' = [client EXCEPT !.tasks = With(@, sutom_stop_enter(client))]
  /\ ClientUnchanged

\* on_message_delete of the message of the session
MessageDelete ==
  /\ Dispatch
  /\ client.message /\ ~client.deleted
  /\ client' = [client EXCEPT !.deleted = TRUE,
                              !.tasks = With(@, sutom_stop_enter(client))]
  /\ ClientUnchanged

\* the fold with "self.sutom_stats.save()" lost
Folded_NoSave(object) == [object EXCEPT !.updates = @ + 1]

\* the calls "self.sutom_stats.update(self.sutom_game); self.sutom_stats.save()"
Folded(object) == [object EXCEPT !.updates = @ + 1, !.saves = @ + 1]

\* sutom_stop after the send of the hidden word: self.sutom_game.answered()
\* is read, then self.sutom_message.channel for the next send
StopSent(t) ==
  /\ t.h = "stop" /\ t.pc = "sent"
  /\ client' =
       IF client.game = 0 \/ ~client.message THEN Raised(client, t)
       ELSE [client EXCEPT !.tasks =
               IF ~Game_answered(CurrentGame) THEN Moved(@, t, "unanswered")
               ELSE Moved(@, t, "listing")]
  /\ ClientUnchanged

\* sutom_stop after the send that says nobody answered
StopUnanswered(t) ==
  /\ t.h = "stop" /\ t.pc = "unanswered"
  /\ IF client.game = 0
     THEN client' = Raised(client, t)
     ELSE client' = [client EXCEPT
            !.previous_hidden_word = CurrentGame.hidden_word,
            !.tasks = Moved(@, t, "presence")]
  /\ ClientUnchanged

\* sutom_stop after the sends of the players' answers: the game is folded
\* into the statistics and the statistics are saved
StopListed(t) ==
  /\ t.h = "stop" /\ t.pc = "listing"
  /\ IF client.game = 0
     THEN client' = Raised(client, t)
     ELSE client' = [client EXCEPT
            !.objects[client.game] = Folded(@),
            !.previous_hidden_word = CurrentGame.hidden_word,
            !.tasks = Moved(@, t, "presence")]
  /\ ClientUnchanged

\* sutom_stop after "await self.change_presence()"
StopPresence(t) ==
  /\ t.h = "stop" /\ t.pc = "presence"
  /\ client' = Collect([client EXCEPT !.message = FALSE, !.game = 0,
                                      !.tasks = Without(@, t)])
  /\ ClientUnchanged

\* on_reaction_remove, JOIN: sutom_leave(user) up to its first await
ReactionRemoveJoin(user) ==
  /\ Dispatch
  /\ client.message /\ ~client.deleted
  /\ user \in client.joined
  /\ IF client.game = 0
     THEN client' = [client EXCEPT !.joined = @ \ {user}]
     ELSE LET r == remove_player(CurrentGame, user)
          IN  client' = [client EXCEPT
                !.joined = @ \ {user},
                !.objects[client.game].game = r.game,
                !.tasks = IF r.ret THEN With(@, Task("leave", "sent", user, 0)) ELSE @]
  /\ ClientUnchanged

\* sutom_leave after its send: self.sutom_game.over() is read, and if the
\* game is over, sutom_stop is entered
LeaveSent(t) ==
  /\ t.h = "leave"
  /\ client' = IF client.game = 0 THEN Raised(client, t)
               ELSE IF Game_over(CurrentGame) THEN Stopping(client, t)
               ELSE [client EXCEPT !.tasks = Without(@, t)]
  /\ ClientUnchanged

RECURSIVE AnswersIn(_, _)
\* the guesses accepted in the first n Game objects
AnswersIn(objects, n) ==
  IF n = 0 THEN 0
  ELSE AnswersIn(objects, n - 1)
         + NumAnswers(objects[n].game, Len(objects[n].game.players))

\* on_message in a DM: on_sutom_answer up to its first await
Message(user, raw) ==
  /\ Dispatch
  /\ IF client.game = 0
     THEN UNCHANGED client
     ELSE LET r == add_answer(CurrentGame, user, raw)
          IN  /\ AnswersIn(client.objects, Len(client.objects)) + (IF r.ret[1] THEN 1 ELSE 0)
                   <= MaxGuesses
              /\ client' = [client EXCEPT
                   !.objects[client.game].game = r.game,
                   !.tasks = IF r.ret[1]
                             THEN With(@, Task("answer", "sent", user, client.game))
                             ELSE @]
  /\ ClientUnchanged

\* on_sutom_answer after the send of the answer: player.found() is read
AnswerSent(t) ==
  /\ t.h = "answer" /\ t.pc = "sent"
  /\ LET player == get_player(client.objects[t.object].game, t.user)
     IN  client' = Collect([client EXCEPT !.tasks =
           IF found(player) THEN Moved(@, t, "congratulated") ELSE Without(@, t)])
  /\ ClientUnchanged

\* on_sutom_answer after the congratulations: self.sutom_message.channel is
\* read for the send of the player's answers; player is not used after that
AnswerCongratulated(t) ==
  /\ t.h = "answer" /\ t.pc = "congratulated"
  /\ client' = Collect(
       IF ~client.message THEN Raised(client, t)
       ELSE [client EXCEPT !.tasks =
               With(Without(@, t), Task("answer", "listed", t.user, 0))])
  /\ ClientUnchanged

\* on_sutom_answer after the send of the player's answers:
\* self.sutom_game.over() is read, and if the game is over, sutom_stop is
\* entered
AnswerListed(t) ==
  /\ t.h = "answer" /\ t.pc = "listed"
  /\ client' = IF client.game = 0 THEN Raised(client, t)
               ELSE IF Game_over(CurrentGame) THEN Stopping(client, t)
               ELSE [client EXCEPT !.tasks = Without(@, t)]
  /\ ClientUnchanged

\* an event is handled or a waiting handler runs to its next await
ClientNext ==
  \/ OnSutom
  \/ \E user \in Users : ReactionAddJoin(user)
  \/ ReactionAddPlay
  \/ ReactionAddStop
  \/ MessageDelete
  \/ \E user \in Users : ReactionRemoveJoin(user)
  \/ \E user \in Users, raw \in Guesses : Message(user, raw)
  \/ \E t \in Waiting : JoinSent(t)
  \/ \E t \in Waiting : StartFetched(t)
  \/ \E t \in Waiting : StartSent(t)
  \/ \E t \in Waiting : StopSent(t)
  \/ \E t \in Waiting : StopUnanswered(t)
  \/ \E t \in Waiting : StopListed(t)
  \/ \E t \in Waiting : StopPresence(t)
  \/ \E t \in Waiting : LeaveSent(t)
  \/ \E t \in Waiting : AnswerSent(t)
  \/ \E t \in Waiting : AnswerCongratulated(t)
  \/ \E t \in Waiting : AnswerListed(t)

\* the handlers interleave at their awaits
SpecClient == ClientInit /\ [][ClientNext]_<<vars, others>>

\* the host runs one event at a time
SpecSequential == SequentialInit /\ [][ClientNext]_<<vars, others>>

\* the Game objects that are not freed
LiveObjects == {n \in DOMAIN client.objects : client.objects[n].game # Freed}

\* a game went over: all its players are over and one of them left or guessed
WentOver(g) ==
  /\ Game_over(g)
  /\ \E i \in DOMAIN g.players : g.players[i].left \/ Player_answered(g.players[i])

\* sutom_stop is about to end the session of self.sutom_game
StopEnding ==
  /\ client.game # 0
  /\ \E t \in Waiting : t.h = "stop" /\ t.pc = "presence"

\* C13 as stated: on a host that runs one event at a time, a session that
\* went over has been folded into the statistics and saved exactly once when
\* sutom_stop ends it.
C13_FoldedExactlyOnce ==
  StopEnding /\ WentOver(CurrentGame) =>
    /\ client.objects[client.game].updates = 1
    /\ client.objects[client.game].saves = 1

\* C13, amended: on a host that runs one event at a time, no Game is folded
\* or saved twice, and each fold is saved; a game that went over does not
\* stay the game of the client once its handler is done; and when sutom_stop
\* ends a session, its game has been folded and saved once if a guess of it
\* was accepted, and not at all if none was.
C13_FoldedOnceIfAnswered ==
  /\ \A n \in DOMAIN client.objects :
       /\ client.objects[n].updates = client.objects[n].saves
       /\ client.objects[n].updates <= 1
  /\ client.tasks = EmptyBag /\ client.game # 0 => ~WentOver(CurrentGame)
  /\ StopEnding =>
       client.objects[client.game].updates
         = (IF Game_answered(CurrentGame) THEN 1 ELSE 0)

\* C13 witness: a session whose last active player found the word is being
\* ended, folded once.
C13_Witness ==
  /\ client.waiting = 0
  /\ StopEnding
  /\ WentOver(CurrentGame)
  /\ \E i \in DOMAIN CurrentGame.players : CurrentGame.players[i].rank > 0
  /\ client.objects[client.game].updates = 1

\* C20: under any interleaving of the handlers, Stats.update is never
\* executed twice for the same Game.
C20_FoldedAtMostOnce ==
  \A n \in DOMAIN client.objects : client.objects[n].updates <= 1

\* C16: the hidden word and the player map of a session are set once: no
\* step assigns self.sutom_game a new Game while it holds one.
C16_GameAssignedOnce ==
  [][client.game # 0 => client'.game \in {0, client.game}]_client

\* the ranks given in a Game are 1, 2, ... with no rank given twice or skipped
RanksConsecutive(g) ==
  LET ranked == {i \in DOMAIN g.players : g.players[i].rank > 0}
  IN  /\ \A i, j \in ranked : i # j => g.players[i].rank # g.players[j].rank
      /\ {g.players[i].rank : i \in ranked} = 1..Cardinality(ranked)

\* a step gives a player who had no rank the lowest rank not yet given, and
\* changes no rank that was given
RanksInOrder(g, h) ==
  \A i \in DOMAIN g.players :
    IF g.players[i].rank > 0
    THEN h.players[i].rank = g.players[i].rank
    ELSE h.players[i].rank \in
           {-1, 1 + Cardinality({j \in DOMAIN g.players : g.players[j].rank > 0})}

\* C18: when guess handlers interleave at their awaits, the players who
\* complete get distinct consecutive ranks, in the order of their add_answer
\* calls.
C18_RanksUnderInterleaving ==
  /\ [] (\A n \in LiveObjects : RanksConsecutive(client.objects[n].game))
  /\ [][\A n \in LiveObjects :
          client'.objects[n].game # Freed
            => RanksInOrder(client.objects[n].game, client'.objects[n].game)]_client

\* C18 witness: the guess handlers of two players wait at their sends, and
\* both players hold a rank.
C18_Witness ==
  /\ client.game # 0
  /\ \A u \in Users :
       /\ Task("answer", "sent", u, client.game) \in Waiting
       /\ InPlayers(CurrentGame, u)
       /\ get_player(CurrentGame, u).rank > 0

\* C21: under any interleaving of the handlers, no handler that resumes
\* after an await reads an attribute of self.sutom_game or
\* self.sutom_message while it is None: on_sutom_answer, sutom_stop,
\* sutom_join and sutom_leave never end with that error.
C21_NoUseOfEndedSession == client.error \notin {"answer", "stop", "join", "leave"}

====
